---- MODULE Spec2Model ----
\* Model of the document ingestion and embedding pipeline:
\*   - the embedding endpoint (supabase/functions/embed/index.ts),
\*   - the storage trigger private.handle_storage_update (documents migration),
\*   - the processing endpoint the trigger calls (functions/process),
\*   - the pipeline web worker (lib/workers/pipeline.ts).
\* Text is a sequence of UTF-16 code units (as a JavaScript string is); an
\* embedding is a sequence of integers (padding zeros are 0, model values are
\* never 0), one element standing for a block of Block consecutive dimensions.
EXTENDS Integers, Sequences, FiniteSets, TLC

\* SQL NULL in a vector column, and undefined for a vector-valued local: a vector
\* has at least one dimension, so the empty sequence is free to stand for both.
Null == <<>>

\* ------------------------------------------------------------------ text

\* Code units the regular expressions of the sanitizer name.
TAB == 9
LF == 10
CR == 13
SPACE == 32
HASH == 35
LPAREN == 40
RPAREN == 41
STAR == 42
LBRACKET == 91
RBRACKET == 93
UNDERSCORE == 95
BACKTICK == 96
TILDE == 126

\* JavaScript \s: the white space below U+0100 (tab, LF, VT, FF, CR, space, NBSP).
IsSpace(c) == c \in {TAB, LF, 11, 12, CR, SPACE, 160}

\* The characters /[^\x20-\x7E\n]/ keeps besides LF: printable ASCII.
Printable == 32..126

\* The positions of s, in order.
Indices(s) == [i \in 1..Len(s) |-> i]

\* .replace(/\r\n/g, '\n').replace(/\r/g, '\n')
NormalizeLineEndings(s) ==
  LET crlf(i) == s[i] = CR /\ i < Len(s) /\ s[i + 1] = LF
      pos == SelectSeq(Indices(s), LAMBDA i : ~crlf(i))
  IN  [j \in 1..Len(pos) |-> IF s[pos[j]] = CR THEN LF ELSE s[pos[j]]]

\* The least index >= from at which s holds character c, or 0.
IndexOf(s, c, from) ==
  LET hits == {i \in from..Len(s) : s[i] = c}
  IN  IF hits = {} THEN 0 ELSE CHOOSE i \in hits : \A j \in hits : i <= j

\* /\[([^\]]*)\]\([^)]*\)/ matched at position i: <<close bracket, close paren>>
\* or <<0, 0>>.
LinkAt(s, i) ==
  IF i > Len(s) \/ s[i] # LBRACKET THEN <<0, 0>>
  ELSE LET rb == IndexOf(s, RBRACKET, i + 1)
       IN  IF rb = 0 \/ rb + 1 > Len(s) \/ s[rb + 1] # LPAREN THEN <<0, 0>>
           ELSE LET rp == IndexOf(s, RPAREN, rb + 2)
                IN  IF rp = 0 THEN <<0, 0>> ELSE <<rb, rp>>

\* .replace(/\[([^\]]*)\]\([^)]*\)/g, '$1'), scanning from position from.
RECURSIVE ReplaceLinksFrom(_, _)
ReplaceLinksFrom(s, from) ==
  LET starts == {i \in from..Len(s) : LinkAt(s, i)[1] # 0}
  IN  IF starts = {} THEN SubSeq(s, from, Len(s))
      ELSE LET i == CHOOSE x \in starts : \A y \in starts : x <= y
               m == LinkAt(s, i)
           IN  SubSeq(s, from, i - 1) \o SubSeq(s, i + 1, m[1] - 1)
                 \o ReplaceLinksFrom(s, m[2] + 1)

\* Variant: links are left to the later replacements.
ReplaceLinksNot(s) == s

ReplaceLinks(s) == ReplaceLinksFrom(s, 1)

\* .replace(/<open>[^<close>]*<close>/g, ''), scanning from position from.
RECURSIVE RemoveDelimitedFrom(_, _, _, _)
RemoveDelimitedFrom(s, open, close, from) ==
  LET starts == {i \in from..Len(s) :
                   s[i] = open /\ IndexOf(s, close, i + 1) # 0}
  IN  IF starts = {} THEN SubSeq(s, from, Len(s))
      ELSE LET i == CHOOSE x \in starts : \A y \in starts : x <= y
               e == IndexOf(s, close, i + 1)
           IN  SubSeq(s, from, i - 1) \o RemoveDelimitedFrom(s, open, close, e + 1)

\* .replace(/\[[^\]]*\]/g, '')
RemoveReferences(s) == RemoveDelimitedFrom(s, LBRACKET, RBRACKET, 1)

\* .replace(/\([^)]*\)/g, '')
RemoveParentheticals(s) == RemoveDelimitedFrom(s, LPAREN, RPAREN, 1)

\* Variant: drops the characters above U+00FF only.
RemoveNonAsciiKeepsLatin1(s) == SelectSeq(s, LAMBDA c : c < 256)

\* .replace(/[^\x20-\x7E\n]/g, '')
RemoveNonAscii(s) == SelectSeq(s, LAMBDA c : c \in Printable \/ c = LF)

\* .replace(/[#*_`~]/g, '')
RemoveFormatting(s) == SelectSeq(s, LAMBDA c : c \notin {HASH, STAR, UNDERSCORE, BACKTICK, TILDE})

\* .replace(/\s+/g, ' ')
NormalizeWhitespace(s) ==
  LET first(i) == ~IsSpace(s[i]) \/ i = 1 \/ ~IsSpace(s[i - 1])
      pos == SelectSeq(Indices(s), first)
  IN  [j \in 1..Len(pos) |-> IF IsSpace(s[pos[j]]) THEN SPACE ELSE s[pos[j]]]

\* .replace(/\n+/g, ' ')
NewlinesToSpaces(s) ==
  LET first(i) == s[i] # LF \/ i = 1 \/ s[i - 1] # LF
      pos == SelectSeq(Indices(s), first)
  IN  [j \in 1..Len(pos) |-> IF s[pos[j]] = LF THEN SPACE ELSE s[pos[j]]]

\* .trim()
Trim(s) ==
  LET solid == {i \in 1..Len(s) : ~IsSpace(s[i])}
  IN  IF solid = {} THEN <<>>
      ELSE SubSeq(s, CHOOSE i \in solid : \A j \in solid : i <= j,
                     CHOOSE i \in solid : \A j \in solid : i >= j)

MaxContentLength == 2000

\* Variant: a lower threshold.
MinContentLengthLow == 10 \div 2

MinContentLength == 10

\* cleanContent.substring(0, 2000) when longer than 2000
Truncate(s) ==
  IF Len(s) > MaxContentLength THEN SubSeq(s, 1, MaxContentLength) ELSE s

\* The chain of replacements and the trim that initialize cleanContent
\* (index.ts lines 84-94).
ReplaceChain(content) ==
  Trim(NewlinesToSpaces(NormalizeWhitespace(RemoveFormatting(
    RemoveNonAscii(RemoveParentheticals(RemoveReferences(ReplaceLinks(
      NormalizeLineEndings(content)))))))))

\* cleanContent as the model receives it: the chain, then the truncation
\* (index.ts lines 84-100).
cleanContent(content) == Truncate(ReplaceChain(content))

\* ------------------------------------------------------------- embeddings

\* One element of a model vector stands for Block consecutive dimensions of the
\* program's vector: the widths below are the program's, counted in blocks.
\* Padding and truncation work at the end of a vector, on whole blocks.
Block == 128

\* The width the handler pads or truncates to (index.ts: output.length !== 1024).
TargetDim == 1024 \div Block

\* The width the documents migration declares: embedding vector (384).
SchemaDim == 384 \div Block

maxRetries == 3

\* Native output widths of the model: gte-small's 384, the target width, a wider one.
NativeWidths == {384 \div Block, 1024 \div Block, 1536 \div Block}

\* model.run(cleanContent, {mean_pool, normalize}) when it resolves: a vector of the
\* model's native width n whose values depend on the text alone (never 0).
ModelOutput(text, n) == [i \in 1..n |-> 1 + ((i + Len(text)) % 5)]

\* Variant: pads in front of the values.
NormalizeDimensionsPadLeft(output) ==
  IF Len(output) # TargetDim
  THEN IF Len(output) > TargetDim
       THEN SubSeq(output, 1, TargetDim)
       ELSE [i \in 1..(TargetDim - Len(output)) |-> 0] \o output
  ELSE output

\* Lines 137-148: truncate to 1024, or pad with zeros up to 1024.
NormalizeDimensions(output) ==
  IF Len(output) # TargetDim
  THEN IF Len(output) > TargetDim
       THEN SubSeq(output, 1, TargetDim)
       ELSE output \o [i \in 1..(TargetDim - Len(output)) |-> 0]
  ELSE output

\* ------------------------------------------------------------------ state

\* Rows of the sections table.
NumRows == 2
Ids == 1..NumRows

\* The concurrent requests to the embedding endpoint.
Invocations == {"A", "B"}

\* "Plain text long enough" (22 code units, nothing to strip).
GoodText == <<80,108,97,105,110,32,116,101,120,116,32,108,111,110,103,32,101,110,111,117,103,104>>
\* "[link](http://x) **b**": 22 code units, sanitized to "link b" (6).
ShortText == <<91,108,105,110,107,93,40,104,116,116,112,58,47,47,120,41,32,42,42,98,42,42>>
\* A row's content column: absent (SQL NULL), or a text, possibly empty.
Absent == [null |-> TRUE, text |-> <<>>]
Text(t) == [null |-> FALSE, text |-> t]
Contents == {Absent, Text(<<>>), Text(ShortText), Text(GoodText)}

\* JavaScript !content
Falsy(c) == c.null \/ c.text = <<>>

VARIABLES
  content,     \* sections: id -> content column
  embedding,   \* sections: id -> embedding column (Null or a vector)
  columnDim,   \* declared width of the embedding column of the table the requests name
  inv,         \* per invocation: the handler's position and locals
  hist,        \* per invocation: what it has done so far (history)
  objects,     \* storage.objects: the rows inserted, in order
  documents,   \* documents: the rows inserted, in order
  docSeq,      \* the identity sequence of documents.id: the last value drawn
  netQueue,    \* pg_net: the requests net.http_post has queued, in order
  netSent,     \* pg_net: how many of the queued requests it has sent
  proc,        \* per request to the processing endpoint: position and locals
  sections,    \* document_sections: the rows the processing endpoint inserted
  sanitizer,   \* the sanitizer run on its own: a text and what becomes of it
  handlers,    \* worker: one run of the message listener per message received
  transformers, \* worker: the transformers module has been imported
  instance,    \* worker: PipelineSingleton.instance (0: undefined, else the
               \* message whose initialization created it)
  posted       \* worker: the messages posted to the main thread, in order

embedVars == <<content, embedding, columnDim, inv, hist>>
ingestVars == <<objects, documents, docSeq, netQueue, netSent, proc, sections>>
workerVars == <<handlers, transformers, instance, posted>>
vars == <<embedVars, ingestVars, sanitizer, workerVars>>

\* The worker as the script leaves it: nothing imported, no instance.
WorkerIdle ==
  /\ handlers = <<>>
  /\ transformers = FALSE
  /\ instance = 0
  /\ posted = <<>>

\* The sanitizer before a text is given to it.
SanitizerIdle ==
  [input |-> <<>>, link |-> FALSE, plain |-> <<>>, done |-> FALSE,
   chain |-> <<>>, output |-> <<>>]

\* The concurrent requests to the processing endpoint.
Processes == {"P", "Q"}

\* The processing handler before a request: document_id is the body's, request
\* the queued request that carried it (0: a client's own call), error the body
\* of a 500 response.
ProcIdle ==
  [pc |-> "idle", document_id |-> 0, request |-> 0, response |-> 0,
   error |-> "none"]

IngestEmpty ==
  /\ objects = <<>>
  /\ documents = <<>>
  /\ docSeq = 0
  /\ netQueue = <<>>
  /\ netSent = 0
  /\ proc = [k \in Processes |-> ProcIdle]
  /\ sections = <<>>

\* The embedding handler before a request; delay is the last backoff wait of
\* the current row (ms), error the body of a 500 response.
Idle ==
  [pc |-> "idle", ids |-> {}, rows |-> <<>>, idx |-> 0, retryCount |-> 0,
   delay |-> 0, native |-> 0, output |-> Null, response |-> 0, error |-> "none"]

\* started: the selection succeeded; embedded: the requested rows that had an
\* embedding when the selection ran; result: how each row of the batch ended
\* ("none": not yet; "nocontent", "short": skipped at the loop head; "exhausted":
\* the model failed maxRetries times; "saved": the update wrote the row;
\* "rejected": the update was refused for the vector's width; "dberror": the
\* update failed for another reason).
NoHistory ==
  [started |-> FALSE, embedded |-> {}, result |-> [r \in Ids |-> "none"]]

EmbedInit ==
  /\ content \in [Ids -> Contents]
  /\ embedding = [r \in Ids |-> Null]
  /\ columnDim \in {SchemaDim, TargetDim}
  /\ inv = [p \in Invocations |-> Idle]
  /\ hist = [p \in Invocations |-> NoHistory]
  /\ IngestEmpty
  /\ WorkerIdle
  /\ sanitizer = SanitizerIdle

\* All orders in which the rows of set S can be returned.
Orders(S) ==
  {o \in [1..Cardinality(S) -> S] : \A i, j \in 1..Cardinality(S) : o[i] = o[j] => i = j}

\* The row the loop of invocation p is at.
Row(p) == inv[p].rows[inv[p].idx]

Finish(p, status) ==
  inv' = [inv EXCEPT ![p] = [Idle EXCEPT !.pc = "done", !.response = status]]

\* Variant: the failure is passed over and the handler goes on to the rows.
RespondErrorGoesOn(p, error) ==
  inv' = [inv EXCEPT ![p].pc = "row", ![p].rows = [i \in 1..NumRows |-> i],
                     ![p].idx = 1, ![p].error = error]

\* return new Response(JSON.stringify({error}), {status: 500}) (lines 22-44, 65-70).
RespondError(p, error) ==
  inv' = [inv EXCEPT ![p] =
            [Idle EXCEPT !.pc = "done", !.response = 500, !.error = error]]

\* The handler up to the selection query (lines 17-57).
Request(p) ==
  /\ inv[p].pc = "idle"
  /\ \E method \in {"POST", "OPTIONS"}, env \in BOOLEAN, authorization \in BOOLEAN,
        I \in SUBSET Ids :
       IF method = "OPTIONS" THEN Finish(p, 200)
       ELSE IF ~env THEN RespondError(p, "Missing environment variables.")
       ELSE IF ~authorization THEN RespondError(p, "No authorization header passed")
       ELSE inv' = [inv EXCEPT ![p].pc = "select", ![p].ids = I]
  /\ UNCHANGED <<content, embedding, columnDim, hist>>

\* Variant: the selection without the id filter.
SelectedUnfiltered(I) == {r \in Ids : embedding[r] = Null}

\* Variant: the selection without the is-null filter.
SelectedAll(I) == I

\* .in('id', ids).is(embeddingColumn, null)
Selected(I) == {r \in I : embedding[r] = Null}

\* The selection query and its error check (lines 59-70).
Select(p) ==
  /\ inv[p].pc = "select"
  /\ \/ /\ RespondError(p, "selectError")
        /\ UNCHANGED hist
     \/ \E o \in Orders(Selected(inv[p].ids)) :
          /\ inv' = [inv EXCEPT ![p].pc = "row", ![p].rows = o, ![p].idx = 1]
          /\ hist' = [hist EXCEPT
                        ![p].started = TRUE,
                        ![p].embedded = {r \in inv[p].ids : embedding[r] # Null}]
  /\ UNCHANGED <<content, embedding, columnDim>>

\* Variant: the row after the next one is taken up.
ContinueAhead(p, outcome) ==
  /\ inv' = [inv EXCEPT ![p].pc = "row", ![p].idx = @ + 2, ![p].retryCount = 0,
                        ![p].delay = 0, ![p].native = 0, ![p].output = Null]
  /\ hist' = [hist EXCEPT ![p].result[Row(p)] = outcome]

\* continue: the row is over (outcome says how), on to the next one; the locals
\* of the loop body (retryCount, output) end with the iteration.
Continue(p, outcome) ==
  /\ inv' = [inv EXCEPT ![p].pc = "row", ![p].idx = @ + 1, ![p].retryCount = 0,
                        ![p].delay = 0, ![p].native = 0, ![p].output = Null]
  /\ hist' = [hist EXCEPT ![p].result[Row(p)] = outcome]

\* The loop head: content check, sanitizer, short-content skip (lines 72-114).
RowStart(p) ==
  /\ inv[p].pc = "row"
  /\ inv[p].idx <= Len(inv[p].rows)
  /\ LET c == content[Row(p)] IN
       IF Falsy(c) THEN Continue(p, "nocontent")
       ELSE IF Len(cleanContent(c.text)) < MinContentLength
       THEN Continue(p, "short")
       ELSE /\ inv' = [inv EXCEPT ![p].pc = "attempt", ![p].retryCount = 0]
            /\ UNCHANGED hist
  /\ UNCHANGED <<content, embedding, columnDim>>

\* Variant: the same wait after every failure.
BackoffDelayConstant(retryCount) == 3000

\* setTimeout(resolve, 3000 * retryCount) (line 161): the wait, in ms, after
\* failure number retryCount.
BackoffDelay(retryCount) == 3000 * retryCount

\* Variant: the third failure is rethrown out of the handler (500).
AttemptFailedRethrows(p) ==
  IF inv[p].retryCount + 1 >= maxRetries
  THEN /\ inv' = [inv EXCEPT ![p].pc = "done", ![p].response = 500]
       /\ UNCHANGED hist
  ELSE /\ inv' = [inv EXCEPT ![p].pc = "backoff", ![p].retryCount = @ + 1,
                             ![p].delay = BackoffDelay(inv[p].retryCount + 1)]
       /\ UNCHANGED hist

\* Variant: the third failure breaks out of the row loop.
AttemptFailedBreaks(p) ==
  IF inv[p].retryCount + 1 >= maxRetries
  THEN /\ inv' = [inv EXCEPT ![p].pc = "row", ![p].idx = Len(inv[p].rows) + 1,
                             ![p].retryCount = 0, ![p].delay = 0]
       /\ hist' = [hist EXCEPT ![p].result[Row(p)] = "exhausted"]
  ELSE /\ inv' = [inv EXCEPT ![p].pc = "backoff", ![p].retryCount = @ + 1,
                             ![p].delay = BackoffDelay(inv[p].retryCount + 1)]
       /\ UNCHANGED hist

\* Variant: gives up one failure early.
AttemptFailedEarly(p) ==
  IF inv[p].retryCount + 1 >= maxRetries - 1
  THEN Continue(p, "exhausted")
  ELSE /\ inv' = [inv EXCEPT ![p].pc = "backoff", ![p].retryCount = @ + 1,
                             ![p].delay = BackoffDelay(inv[p].retryCount + 1)]
       /\ UNCHANGED hist

\* Variant: gives up one failure late.
AttemptFailedOnceMore(p) ==
  IF inv[p].retryCount + 1 >= maxRetries + 1
  THEN Continue(p, "exhausted")
  ELSE /\ inv' = [inv EXCEPT ![p].pc = "backoff", ![p].retryCount = @ + 1,
                             ![p].delay = BackoffDelay(inv[p].retryCount + 1)]
       /\ UNCHANGED hist

\* The catch block of the retry loop (lines 152-162): count the failure, give up
\* at maxRetries (the outer catch continues with the next row), else back off.
AttemptFailed(p) ==
  IF inv[p].retryCount + 1 >= maxRetries
  THEN Continue(p, "exhausted")
  ELSE /\ inv' = [inv EXCEPT ![p].pc = "backoff", ![p].retryCount = @ + 1,
                             ![p].delay = BackoffDelay(inv[p].retryCount + 1)]
       /\ UNCHANGED hist

\* One pass of the retry loop: the model runs and resolves or throws (lines 116-163).
RunModel(p) ==
  /\ inv[p].pc = "attempt"
  /\ \/ \E n \in NativeWidths :
          /\ inv' = [inv EXCEPT
                       ![p].pc = "update",
                       ![p].native = n,
                       ![p].output =
                         NormalizeDimensions(
                           ModelOutput(cleanContent(content[Row(p)].text), n))]
          /\ UNCHANGED hist
     \/ AttemptFailed(p)
  /\ UNCHANGED <<content, embedding, columnDim>>

\* The wait of BackoffDelay(retryCount) ms before the next attempt (line 161).
Backoff(p) ==
  /\ inv[p].pc = "backoff"
  /\ inv' = [inv EXCEPT ![p].pc = "attempt"]
  /\ UNCHANGED <<content, embedding, columnDim, hist>>

\* Variant: the column takes a vector of any width.
DimensionAny(v) == TRUE

\* The column's type check: a vector (n) column takes vectors of n dimensions
\* only. document_sections.embedding is a vector (384); the handler is told the
\* table and the column by the request, and pads "to 1024 to match our database
\* schema" (index.ts line 122).
DimensionOk(v) == Len(v) = columnDim

\* Variant: the update merges the new vector into the one already there.
StoredMerged(old, v) ==
  IF old = Null THEN v
  ELSE [i \in 1..Len(v) |-> IF i % 2 = 0 /\ i <= Len(old) THEN old[i] ELSE v[i]]

\* What the update leaves in the row's embedding column.
Stored(old, v) == v

\* Variant: after a failed update the model is run again for the row.
UpdateFailureRunsModelAgain(p) ==
  /\ inv[p].pc = "update"
  /\ \/ /\ DimensionOk(inv[p].output)
        /\ embedding' = [embedding EXCEPT ![Row(p)] = Stored(@, inv[p].output)]
        /\ Continue(p, "saved")
     \/ /\ UNCHANGED <<embedding, hist>>
        /\ inv' = [inv EXCEPT ![p].pc = "attempt", ![p].output = Null,
                              ![p].native = 0]
  /\ UNCHANGED <<content, columnDim>>

\* .update({[embeddingColumn]: embedding}).eq('id', id) and its result (lines 165-183).
Update(p) ==
  /\ inv[p].pc = "update"
  /\ \/ /\ DimensionOk(inv[p].output)
        /\ embedding' = [embedding EXCEPT ![Row(p)] = Stored(@, inv[p].output)]
        /\ Continue(p, "saved")
     \/ /\ ~DimensionOk(inv[p].output)
        /\ UNCHANGED embedding
        /\ Continue(p, "rejected")
     \/ /\ UNCHANGED embedding
        /\ Continue(p, "dberror")
  /\ UNCHANGED <<content, columnDim>>

\* The loop is over: 204 (lines 198-201).
Respond(p) ==
  /\ inv[p].pc = "row"
  /\ inv[p].idx > Len(inv[p].rows)
  /\ inv' = [inv EXCEPT ![p].pc = "done", ![p].response = 204]
  /\ UNCHANGED <<content, embedding, columnDim, hist>>

EmbedNext ==
  /\ \E p \in Invocations :
       \/ Request(p)
       \/ Select(p)
       \/ RowStart(p)
       \/ RunModel(p)
       \/ Backoff(p)
       \/ Update(p)
       \/ Respond(p)
  /\ UNCHANGED ingestVars
  /\ UNCHANGED sanitizer
  /\ UNCHANGED workerVars

SpecEmbed == EmbedInit /\ [][EmbedNext]_vars

\* -------------------------------------------------------------- ingestion

\* Objects uploaded in one run of the model.
MaxObjects == 3

\* storage.objects.bucket_id: a bucket, or NULL (the column is nullable).
Buckets == {"files", "avatars", "NULL"}
Users == {"u1"}
\* storage.objects.path_tokens: the object's name split at "/".
Paths == {<<"u1", "a.md">>, <<"a.md">>}

\* A storage.objects row as the trigger sees it (new.*); owner may be NULL.
NewObject(id, bucket, path, owner) ==
  [id |-> id, bucket_id |-> bucket, path_tokens |-> path, owner |-> owner]

\* new.path_tokens[2], NULL when the path has one token.
PathToken2(new) ==
  IF Len(new.path_tokens) >= 2 THEN new.path_tokens[2] ELSE "NULL"

\* Variant: every bucket is processed.
MonitoredAny(new) == TRUE

\* if new.bucket_id != 'files' then return null (lines 96-99): the trigger goes
\* on unless the comparison is true, and it is NULL, not true, for a NULL bucket.
Monitored(new) == ~(new.bucket_id # "NULL" /\ new.bucket_id # "files")

\* documents.name and documents.created_by are not null (lines 6-8).
DocumentInsertOk(new) == PathToken2(new) # "NULL" /\ new.owner # "NULL"

\* Variant: the request carries the identifier before the new document's.
ProcessCallPrevious(document_id) ==
  [url |-> "/functions/v1/process", authorization |-> TRUE,
   document_id |-> document_id - 1]

\* net.http_post(url, headers, body) of lines 110-121: the request queued, with
\* its Authorization header and its body {document_id}.
ProcessCall(document_id) ==
  [url |-> "/functions/v1/process", authorization |-> TRUE,
   document_id |-> document_id]

\* An insert into storage.objects with its after-insert trigger on_file_upload
\* running private.handle_storage_update in the same transaction (lines 85-132).
handle_storage_update(new) ==
  IF ~Monitored(new)
  THEN /\ objects' = Append(objects, new)
       /\ UNCHANGED <<documents, docSeq, netQueue>>
  ELSE IF ~DocumentInsertOk(new)
  THEN \* the insert into documents raises: the transaction is rolled back, the
       \* value drawn from the identity sequence is not given back
       /\ docSeq' = docSeq + 1
       /\ UNCHANGED <<objects, documents, netQueue>>
  ELSE LET document_id == docSeq + 1 IN
       /\ objects' = Append(objects, new)
       /\ documents' = Append(documents,
            [id |-> document_id, name |-> PathToken2(new),
             storage_object_id |-> new.id, created_by |-> new.owner])
       /\ docSeq' = document_id
       /\ netQueue' = Append(netQueue, ProcessCall(document_id))

Upload ==
  /\ Len(objects) < MaxObjects
  /\ docSeq < MaxObjects
  /\ \E bucket \in Buckets, path \in Paths, owner \in Users \cup {"NULL"} :
       handle_storage_update(NewObject(Len(objects) + 1, bucket, path, owner))
  /\ UNCHANGED <<netSent, proc, sections>>
  /\ UNCHANGED embedVars

\* ---------------------------------------------------- processing endpoint

\* The document identifiers a client may name in a request of its own.
DocIds == 1..MaxObjects

\* processMarkdown(fileContents).sections.length: no section, or several.
SectionCounts == {0, 2}

\* Variant: every identifier finds a document.
DocumentFoundAny(document_id) == TRUE

\* documents_with_storage_path has a row with this id (lines 70-74): the
\* document exists (its storage object does, by the foreign key).
DocumentFound(document_id) ==
  \E i \in 1..Len(documents) : documents[i].id = document_id

\* Variant: a failed request takes its document, and the upload, back.
ProcessFailsRollsBack(k, call, error) ==
  /\ proc' = [proc EXCEPT ![k] =
                [call EXCEPT !.pc = "done", !.response = 500, !.error = error]]
  /\ documents' = SelectSeq(documents, LAMBDA d : d.id # call.document_id)
  /\ objects' = SelectSeq(objects, LAMBDA o :
                   \A i \in 1..Len(documents) :
                     documents[i].id = call.document_id =>
                       documents[i].storage_object_id # o.id)
  /\ UNCHANGED sections

\* return new Response(JSON.stringify({error}), {status: 500}): the request,
\* whose locals are call, ends; nothing is undone.
ProcessFails(k, call, error) ==
  /\ proc' = [proc EXCEPT ![k] =
                [call EXCEPT !.pc = "done", !.response = 500, !.error = error]]
  /\ UNCHANGED <<objects, documents, sections>>

\* The handler up to the parsed body (lines 15-66).
ProcessServe(k, method, env, authorization, document_id, request) ==
  LET call == [ProcIdle EXCEPT !.request = request] IN
  IF method = "OPTIONS"
  THEN /\ proc' = [proc EXCEPT ![k] = [call EXCEPT !.pc = "done", !.response = 200]]
       /\ UNCHANGED <<objects, documents, sections>>
  ELSE IF ~env THEN ProcessFails(k, call, "Missing environment variables.")
  ELSE IF ~authorization THEN ProcessFails(k, call, "No authorization header passed")
  ELSE /\ proc' = [proc EXCEPT ![k] =
                     [call EXCEPT !.pc = "find", !.document_id = document_id]]
       /\ UNCHANGED <<objects, documents, sections>>

\* A request reaches the processing endpoint: the next one pg_net has queued
\* (sent once the upload's transaction has committed), or a client's own.
ProcessRequest(k) ==
  /\ proc[k].pc = "idle"
  /\ \E env \in BOOLEAN :
       \/ /\ netSent < Len(netQueue)
          /\ netSent' = netSent + 1
          /\ LET call == netQueue[netSent + 1] IN
               ProcessServe(k, "POST", env, call.authorization, call.document_id,
                            netSent + 1)
       \/ /\ \E method \in {"POST", "OPTIONS"}, authorization \in BOOLEAN,
                document_id \in DocIds :
               ProcessServe(k, method, env, authorization, document_id, 0)
          /\ UNCHANGED netSent
  /\ UNCHANGED <<docSeq, netQueue>>
  /\ UNCHANGED embedVars

\* The document query and its check (lines 70-87); visible: the row passes the
\* caller's row-level security and the query does not fail.
ProcessFind(k) ==
  /\ proc[k].pc = "find"
  /\ \E visible \in BOOLEAN :
       IF DocumentFound(proc[k].document_id) /\ visible
       THEN /\ proc' = [proc EXCEPT ![k].pc = "download"]
            /\ UNCHANGED <<objects, documents, sections>>
       ELSE ProcessFails(k, proc[k], "Failed to find uploaded document")
  /\ UNCHANGED <<docSeq, netQueue, netSent>>
  /\ UNCHANGED embedVars

\* The download and its check (lines 91-106).
ProcessDownload(k) ==
  /\ proc[k].pc = "download"
  /\ \E file \in BOOLEAN :
       IF file
       THEN /\ proc' = [proc EXCEPT ![k].pc = "insert"]
            /\ UNCHANGED <<objects, documents, sections>>
       ELSE ProcessFails(k, proc[k], "Failed to download storage object")
  /\ UNCHANGED <<docSeq, netQueue, netSent>>
  /\ UNCHANGED embedVars

\* The rows one insert adds for n sections of a document.
SectionRows(document_id, n) ==
  [i \in 1..n |-> [document_id |-> document_id, content |-> i]]

\* The file is read and split, its sections are inserted in one statement, and
\* the result is checked (lines 108-142).
ProcessInsert(k) ==
  /\ proc[k].pc = "insert"
  /\ \E n \in SectionCounts, inserted \in BOOLEAN :
       IF inserted
       THEN /\ sections' = sections \o SectionRows(proc[k].document_id, n)
            /\ proc' = [proc EXCEPT ![k].pc = "done", ![k].response = 204]
            /\ UNCHANGED <<objects, documents>>
       ELSE ProcessFails(k, proc[k], "Failed to save document sections")
  /\ UNCHANGED <<docSeq, netQueue, netSent>>
  /\ UNCHANGED embedVars

IngestInit ==
  /\ IngestEmpty
  /\ WorkerIdle
  /\ content = [r \in Ids |-> Absent]
  /\ embedding = [r \in Ids |-> Null]
  /\ columnDim = SchemaDim
  /\ inv = [p \in Invocations |-> Idle]
  /\ hist = [p \in Invocations |-> NoHistory]
  /\ sanitizer = SanitizerIdle

IngestNext ==
  /\ \/ Upload
     \/ \E k \in Processes :
          \/ ProcessRequest(k)
          \/ ProcessFind(k)
          \/ ProcessDownload(k)
          \/ ProcessInsert(k)
  /\ UNCHANGED sanitizer
  /\ UNCHANGED workerVars

SpecIngest == IngestInit /\ [][IngestNext]_vars

\* -------------------------------------------------------------- sanitizer

\* Length of the short texts given to the sanitizer.
MaxLen == 4

\* Characters of the short texts: white space, line ends, brackets,
\* parentheses, an emphasis marker, a letter, a Latin-1 letter (e acute).
Alphabet == {TAB, LF, CR, SPACE, LBRACKET, RBRACKET, LPAREN, RPAREN, STAR, 97, 233}

ShortTexts == UNION {[1..n -> Alphabet] : n \in 0..MaxLen}

\* Words of one to seven letters with a space between them, n characters long;
\* character 2000 is a space.
LongText(n) == [i \in 1..n |-> IF i % 8 = 0 THEN SPACE ELSE 97 + (i % 5)]

LongTexts == {LongText(n) : n \in {1999, 2000, 2001, 2500}}

\* "[click here](http://x) *bold*"
Example ==
  <<91,99,108,105,99,107,32,104,101,114,101,93,40,104,116,116,112,58,47,47,120,41,
    32,42,98,111,108,100,42>>

\* A markdown link [text](url) with text before and after it.
Link(pre, text, url, post) ==
  pre \o <<LBRACKET>> \o text \o <<RBRACKET, LPAREN>> \o url \o <<RPAREN>> \o post

\* Link texts (no closing bracket), urls (no closing parenthesis), and plain
\* text around a link.
LinkTexts == UNION {[1..n -> {97, SPACE, STAR, LPAREN, LBRACKET, 233}] : n \in 0..2}
LinkUrls == UNION {[1..n -> {120, SPACE, LPAREN, RBRACKET}] : n \in 0..2}
Around == {<<>>, <<97, SPACE>>, <<SPACE, STAR, 98, STAR>>, <<LF, 97>>}

\* A text is given to the sanitizer: any short text, a long one, the example,
\* or a link in plain text (plain: the same with the link's text in its place).
SanitizeInit ==
  /\ \/ \E t \in ShortTexts \cup LongTexts \cup {Example} :
          sanitizer = [SanitizerIdle EXCEPT !.input = t]
     \/ \E pre \in Around, text \in LinkTexts, url \in LinkUrls, post \in Around :
          sanitizer = [SanitizerIdle EXCEPT
                         !.input = Link(pre, text, url, post),
                         !.link = TRUE,
                         !.plain = pre \o text \o post]
  /\ content = [r \in Ids |-> Absent]
  /\ embedding = [r \in Ids |-> Null]
  /\ columnDim = SchemaDim
  /\ inv = [p \in Invocations |-> Idle]
  /\ hist = [p \in Invocations |-> NoHistory]
  /\ IngestEmpty
  /\ WorkerIdle

\* The sanitizer runs on the text (index.ts lines 84-100).
Sanitize ==
  /\ ~sanitizer.done
  /\ sanitizer' = [sanitizer EXCEPT
                     !.done = TRUE,
                     !.chain = ReplaceChain(sanitizer.input),
                     !.output = cleanContent(sanitizer.input)]
  /\ UNCHANGED <<embedVars, ingestVars>>
  /\ UNCHANGED workerVars

SanitizeNext == Sanitize

SpecSanitize == SanitizeInit /\ [][SanitizeNext]_vars

\* -------------------------------------------------------- pipeline worker

\* Messages the worker receives in one run of the model, and progress updates
\* one initialization reports.
MaxMessages == 3
MaxProgress == 2

\* One run of the message listener: type and id are the message's, pc the
\* await it stands at, imports tells whether loadTransformers found the
\* module missing, using the instance a 'run' called, error what it threw.
Handler(type, id, pc) ==
  [type |-> type, id |-> id, pc |-> pc, imports |-> FALSE, progress |-> 0,
   using |-> 0, error |-> "none"]

\* The 'run' messages received so far.
Runs == {m \in 1..Len(handlers) : handlers[m].type = "run"}

\* The id the main thread gives its next 'run' message: a counter.
NextRunId == Cardinality(Runs)

\* An 'init' message arrives: the listener runs up to the await in
\* loadTransformers (lines 93-106, 83-84, 8-10).
ReceiveInit ==
  /\ Len(handlers) < MaxMessages
  /\ handlers' = Append(handlers,
       [Handler("init", 0, "load") EXCEPT !.imports = ~transformers])
  /\ UNCHANGED <<transformers, instance, posted>>

\* loadTransformers settles (lines 8-15): the import, if one was started,
\* resolves or rejects; then pipeline(...args) is called (line 85).
LoadTransformers(m) ==
  /\ handlers[m].pc = "load"
  /\ \/ /\ handlers' = [handlers EXCEPT ![m].pc = "pipeline"]
        /\ transformers' = (transformers \/ handlers[m].imports)
     \/ /\ handlers[m].imports
        /\ handlers' = [handlers EXCEPT ![m].pc = "failed", ![m].error = "import"]
        /\ UNCHANGED transformers
  /\ UNCHANGED <<instance, posted>>

\* The pipeline reports progress while it loads (lines 97-102).
progress_callback(m) ==
  /\ handlers[m].pc = "pipeline"
  /\ handlers[m].progress < MaxProgress
  /\ handlers' = [handlers EXCEPT ![m].progress = @ + 1]
  /\ posted' = Append(posted, [type |-> "progress", of |-> m, id |-> 0])
  /\ UNCHANGED <<transformers, instance>>

\* this.instance = await pipeline(...args) (line 85): the pipeline resolves and
\* is stored, or rejects.
PipelineSettles(m) ==
  /\ handlers[m].pc = "pipeline"
  /\ \/ /\ handlers' = [handlers EXCEPT ![m].pc = "stored"]
        /\ instance' = m
     \/ /\ handlers' = [handlers EXCEPT ![m].pc = "failed", ![m].error = "pipeline"]
        /\ UNCHANGED instance
  /\ UNCHANGED <<transformers, posted>>

\* Variant: 'ready' may be posted while the pipeline still loads.
ReadyAllowedEarly(m) == handlers[m].pc \in {"pipeline", "stored"}

\* The listener is past await PipelineSingleton.init(...) (lines 106-111).
ReadyAllowed(m) == handlers[m].pc = "stored"

\* self.postMessage({type: 'ready'}) (lines 111-115).
PostReady(m) ==
  /\ handlers[m].type = "init"
  /\ ReadyAllowed(m)
  /\ handlers' = [handlers EXCEPT ![m].pc = IF @ = "stored" THEN "done" ELSE @]
  /\ posted' = Append(posted, [type |-> "ready", of |-> m, id |-> 0])
  /\ UNCHANGED <<transformers, instance>>

\* Variant: the instance is never found missing.
NotInitializedNever == FALSE

\* !PipelineSingleton.instance (line 118).
NotInitialized == instance = 0

\* A 'run' message arrives: the listener throws if there is no instance, else
\* calls the instance and awaits it (lines 93, 117-124).
ReceiveRun ==
  /\ Len(handlers) < MaxMessages
  /\ handlers' = Append(handlers,
       IF NotInitialized
       THEN [Handler("run", NextRunId, "failed") EXCEPT
               !.error = "Pipeline not initialized"]
       ELSE [Handler("run", NextRunId, "running") EXCEPT !.using = instance])
  /\ UNCHANGED <<transformers, instance, posted>>

\* The instance's call settles: the result is posted with the message's id
\* (lines 124-136), or the call rejects.
RunSettles(m) ==
  /\ handlers[m].pc = "running"
  /\ \/ /\ handlers' = [handlers EXCEPT ![m].pc = "done"]
        /\ posted' = Append(posted,
             [type |-> "result", of |-> m, id |-> handlers[m].id])
     \/ /\ handlers' = [handlers EXCEPT ![m].pc = "failed", ![m].error = "run"]
        /\ UNCHANGED posted
  /\ UNCHANGED <<transformers, instance>>

WorkerInit ==
  /\ WorkerIdle
  /\ sanitizer = SanitizerIdle
  /\ content = [r \in Ids |-> Absent]
  /\ embedding = [r \in Ids |-> Null]
  /\ columnDim = SchemaDim
  /\ inv = [p \in Invocations |-> Idle]
  /\ hist = [p \in Invocations |-> NoHistory]
  /\ objects = <<>>
  /\ documents = <<>>
  /\ docSeq = 0
  /\ netQueue = <<>>
  /\ netSent = 0
  /\ proc = [k \in Processes |-> ProcIdle]
  /\ sections = <<>>

WorkerNext ==
  /\ \/ ReceiveInit
     \/ ReceiveRun
     \/ \E m \in 1..Len(handlers) :
          \/ LoadTransformers(m)
          \/ progress_callback(m)
          \/ PipelineSettles(m)
          \/ PostReady(m)
          \/ RunSettles(m)
  /\ UNCHANGED <<embedVars, ingestVars, sanitizer>>

SpecWorker == WorkerInit /\ [][WorkerNext]_vars

\* ------------------------------------------------------------- properties

\* A step of the row loop of invocation p, from the selection's success to the
\* response.
LoopStep(p) == RowStart(p) \/ RunModel(p) \/ Backoff(p) \/ Update(p) \/ Respond(p)

\* What is left of the batch of invocation p: it decreases with every loop step.
Remaining(p) ==
  IF inv[p].pc = "done" THEN 0
  ELSE 8 * (Len(inv[p].rows) + 1 - inv[p].idx)
       + CASE inv[p].pc = "row" -> 7
           [] inv[p].pc = "attempt" -> 6 - 2 * inv[p].retryCount
           [] inv[p].pc = "backoff" -> 7 - 2 * inv[p].retryCount
           [] inv[p].pc = "update" -> 1

\* The rows of invocation p whose iteration is over.
Finished(p) ==
  {inv[p].rows[i] : i \in {j \in 1..Len(inv[p].rows) : j < inv[p].idx}}

\* The row's text reaches the model: it has content of 10 characters or more
\* once sanitized.
Embeddable(r) == ~Falsy(content[r]) /\ Len(cleanContent(content[r].text)) >= 10

\* Every loop step brings the end of the batch nearer.
BatchProgresses ==
  [][\A p \in Invocations :
       hist[p].started /\ inv'[p] # inv[p] => Remaining(p)' < Remaining(p)]_vars

\* The guard of LoopStep(p): the handler is in the row loop, at the loop head or
\* inside the iteration of one of its rows.
InLoop(p) ==
  /\ inv[p].pc \in {"row", "attempt", "backoff", "update"}
  /\ inv[p].pc # "row" => inv[p].idx \in 1..Len(inv[p].rows)

\* C1: once the selection has succeeded the request ends with 204 and nothing
\* else: until the response no response is given and the handler is in its
\* row loop, where it can take its next step (which, by BatchProgresses, brings
\* the end nearer), and the response is 204.
C1_RespondsNoContent ==
  \A p \in Invocations : hist[p].started =>
    IF inv[p].pc = "done" THEN inv[p].response = 204
    ELSE inv[p].response = 0 /\ InLoop(p)

\* C1 witness: a batch answered 204 with one row whose model attempts were
\* exhausted and one row whose update failed.
C1_Witness ==
  \E p \in Invocations :
    /\ inv[p].response = 204
    /\ \E r1, r2 \in Ids :
         hist[p].result[r1] = "exhausted" /\ hist[p].result[r2] = "dberror"

\* C2: every selected row is visited, in the order selected; how a row ends
\* depends on the row alone (its content decides whether the model and the
\* update are reached), whatever happened to the rows before it; and a row
\* saved by the batch still holds an embedding afterwards.
C2_RowsIsolated ==
  \A p \in Invocations : hist[p].started =>
    /\ \A r \in Ids :
         hist[p].result[r] # "none" <=>
           r \in Finished(p)
    /\ inv[p].pc = "done" =>
         Finished(p) = {inv[p].rows[i] : i \in 1..Len(inv[p].rows)}
    /\ \A r \in Finished(p) :
         /\ hist[p].result[r] = "nocontent" <=> Falsy(content[r])
         /\ hist[p].result[r] \in {"saved", "rejected", "dberror", "exhausted"}
              <=> Embeddable(r)
         /\ hist[p].result[r] = "saved" => embedding[r] # Null

\* C2 witness: a finished batch of two rows whose first row failed (attempts
\* exhausted) and whose second row was saved.
C2_Witness ==
  \E p \in Invocations :
    /\ inv[p].pc = "done"
    /\ Len(inv[p].rows) = 2
    /\ hist[p].result[inv[p].rows[1]] = "exhausted"
    /\ hist[p].result[inv[p].rows[2]] = "saved"

\* C3: every embedding that is not null has exactly the width of the table's
\* embedding column.
C3_EmbeddingHasColumnWidth ==
  \A r \in Ids : embedding[r] # Null => Len(embedding[r]) = columnDim

\* C3 witness: a stored embedding that came from a model output narrower than
\* the column (its last value is a padding zero).
C3_Witness ==
  \E r \in Ids : embedding[r] # Null /\ embedding[r][Len(embedding[r])] = 0

\* The pad/truncate law of the claim, for a native vector v (widths in blocks).
PadTruncateLaw(v) ==
  LET target == 1024 \div Block IN
  IF Len(v) = target THEN v
  ELSE IF Len(v) > target THEN [i \in 1..target |-> v[i]]
  ELSE [i \in 1..target |-> IF i <= Len(v) THEN v[i] ELSE 0]

\* The vector the model returned natively to invocation p for its current row.
NativeOutput(p) ==
  ModelOutput(cleanContent(content[Row(p)].text), inv[p].native)

\* C4: the vector an update stores is the model's native vector when that is
\* 1024 wide, its first 1024 values when it is wider, and its values followed by
\* zeros up to 1024 when it is narrower.
C4_PadTruncateLaw ==
  [][\A p \in Invocations :
       inv[p].pc = "update" /\ hist'[p].result[Row(p)] = "saved" =>
         embedding'[Row(p)] = PadTruncateLaw(NativeOutput(p))]_vars

\* C4 witness: a stored vector of 384 non-zero values followed by 640 zeros
\* (counted in blocks).
C4_Witness ==
  \E r \in Ids :
    /\ Len(embedding[r]) = 1024 \div Block
    /\ \A i \in 1..(384 \div Block) : embedding[r][i] # 0
    /\ \A i \in (384 \div Block + 1)..(1024 \div Block) : embedding[r][i] = 0

\* The step is the update of invocation p coming back.
UpdateReturns(p) == inv[p].pc = "update" /\ inv'[p] # inv[p]

\* The step is a model attempt of invocation p ending.
AttemptEnds(p) == inv[p].pc = "attempt" /\ inv'[p] # inv[p]

\* C5 as claimed: when the model has failed twice and succeeded on the third
\* attempt, the update that follows persists the embedding (unless the database
\* fails for a reason of its own).
C5_ThirdAttemptPersisted ==
  [][\A p \in Invocations :
       UpdateReturns(p) /\ inv[p].retryCount = 2 =>
         \/ hist'[p].result[Row(p)] = "saved" /\ embedding'[Row(p)] = inv[p].output
         \/ hist'[p].result[Row(p)] = "dberror"]_vars

\* C5, the part the handler keeps: a third attempt that succeeds sends its
\* vector to the update; a third failure ends the row with no write, leaves the
\* rest of the batch to be processed, and a row is given up after three
\* failures only.
C5_RetryOutcomes ==
  [][\A p \in Invocations :
       /\ AttemptEnds(p) /\ inv[p].retryCount = 2 /\ inv'[p].pc = "update" =>
            /\ inv'[p].output # Null
            /\ inv'[p].idx = inv[p].idx
       /\ AttemptEnds(p) /\ inv[p].retryCount = 2 /\ inv'[p].pc # "update" =>
            /\ hist'[p].result[Row(p)] = "exhausted"
            /\ embedding' = embedding
            /\ inv'[p].pc = "row"
            /\ inv'[p].idx = inv[p].idx + 1
            /\ inv'[p].rows = inv[p].rows
       /\ AttemptEnds(p) /\ hist'[p].result[Row(p)] = "exhausted" =>
            inv[p].retryCount = 2]_vars

\* C6: a row whose content is absent or empty, or shorter than 10 characters
\* once sanitized, never reaches the model or the update: its iteration ends at
\* the loop head, as "nocontent" or "short". (Stated the other way round: a row
\* that is at a model attempt, a backoff or an update, or that ended otherwise
\* than at the loop head, has 10 characters or more once sanitized.)
C6_ShortRowsUntouched ==
  \A p \in Invocations : \A i \in 1..Len(inv[p].rows) :
    LET r == inv[p].rows[i] IN
      \/ hist[p].result[r] \notin {"none", "nocontent", "short"}
      \/ i = inv[p].idx /\ inv[p].pc # "row"
      => Embeddable(r)

\* C6 witness: a finished batch that skipped one row for its short text and one
\* for its missing content, with no embedding on either.
C6_Witness ==
  \E p \in Invocations : \E r1, r2 \in Ids :
    /\ inv[p].pc = "done"
    /\ hist[p].result[r1] = "short"
    /\ hist[p].result[r2] = "nocontent"
    /\ embedding[r1] = Null /\ embedding[r2] = Null

\* C7 as claimed: an embedding that is not null is never written again (the
\* model has no operation that clears an embedding).
C7_NeverWrittenAgain ==
  [][\A r \in Ids : embedding[r] # Null => embedding'[r] = embedding[r]]_vars

\* C7 amended: an embedding that is not null is written again only by an
\* invocation whose selection ran while the row's embedding was still null.
C7_RewrittenOnlyBySelectedBefore ==
  [][\A r \in Ids :
       embedding[r] # Null /\ embedding'[r] # embedding[r] =>
         \E p \in Invocations :
           /\ UpdateReturns(p)
           /\ Row(p) = r
           /\ r \notin hist[p].embedded]_vars

\* C7 witness: a row written twice: an invocation has saved a row that another
\* invocation, which selected it too, had saved before.
C7_Witness ==
  \E r \in Ids : \A p \in Invocations :
    hist[p].result[r] = "saved" /\ r \notin hist[p].embedded

\* No invocation other than p is between its selection and its response.
Alone(p) ==
  \A q \in Invocations \ {p} : inv[q].pc \in {"idle", "select", "done"}

\* C8: a batch run over a row that already has an embedding, with no other
\* batch under way, leaves the row's vector as it was.
C8_SecondRunKeepsVector ==
  [][\A p \in Invocations : \A r \in hist[p].embedded :
       Alone(p) => embedding'[r] = embedding[r]]_vars

\* C8 witness: a second batch has run to its 204 over a row the first batch had
\* saved before the second one's selection.
C8_Witness ==
  \E p, q \in Invocations : \E r \in Ids :
    /\ p # q
    /\ hist[q].result[r] = "saved"
    /\ r \in hist[p].embedded
    /\ inv[p].response = 204
    /\ inv[q].response = 204

\* C9: an embedding changes only by the update of one invocation, and to the
\* whole vector that update carries (the last update applied is what the row
\* holds; no value of an earlier vector survives in it).
C9_LastWriterWins ==
  [][\A r \in Ids :
       embedding'[r] # embedding[r] =>
         \E p \in Invocations :
           /\ UpdateReturns(p)
           /\ Row(p) = r
           /\ embedding'[r] = inv[p].output
           /\ hist'[p].result[r] = "saved"]_vars

\* C9 witness: two invocations selected the same unembedded row, both saved it
\* with different vectors, both answered 204, and the row holds a whole vector.
C9_Witness ==
  \E r \in Ids :
    /\ \A p \in Invocations :
         /\ hist[p].result[r] = "saved"
         /\ r \notin hist[p].embedded
         /\ inv[p].response = 204
    /\ embedding[r] # Null
    /\ embedding[r][Len(embedding[r])] = 0
    /\ embedding[r][1] # 0

\* C10: a step that inserts an object into a bucket other than 'files' adds no
\* document and queues no request.
C10_OtherBucketIgnored ==
  [][Len(objects') > Len(objects)
       /\ objects'[Len(objects')].bucket_id \notin {"files", "NULL"} =>
         documents' = documents /\ netQueue' = netQueue]_vars

\* C10 witness: objects were uploaded to another bucket only, and there is no
\* document and no queued request.
C10_Witness ==
  /\ Len(objects) >= 2
  /\ \A i \in 1..Len(objects) : objects[i].bucket_id = "avatars"
  /\ documents = <<>>
  /\ netQueue = <<>>

\* Among docs, the documents that refer to storage object o; among queue, the
\* requests that carry document d (as positions).
DocumentsOf(docs, o) == {i \in 1..Len(docs) : docs[i].storage_object_id = o.id}
CallsFor(queue, d) == {j \in 1..Len(queue) : queue[j].document_id = d.id}

\* The documents table holds a row with identifier d.
HasDocument(d) == d \in {documents[i].id : i \in 1..Len(documents)}

\* C11: the step that inserts an object into the 'files' bucket adds exactly
\* one document, whose name, storage object and owner are the event's, and
\* queues exactly one request, which carries the new document's identifier;
\* documents and requests come from nowhere else, so that every object of the
\* bucket has one document and that document one request; and when a queued
\* request is sent, its document is already there.
C11_DocumentThenCall ==
  [][/\ Len(objects') > Len(objects) /\ objects'[Len(objects')].bucket_id = "files" =>
          LET new == objects'[Len(objects')]
              doc == documents'[Len(documents')]
          IN  /\ Len(documents') = Len(documents) + 1
              /\ SubSeq(documents', 1, Len(documents)) = documents
              /\ doc.name = new.path_tokens[2]
              /\ doc.storage_object_id = new.id
              /\ doc.created_by = new.owner
              /\ \A i \in 1..Len(documents) : documents[i].id # doc.id
              /\ Len(netQueue') = Len(netQueue) + 1
              /\ SubSeq(netQueue', 1, Len(netQueue)) = netQueue
              /\ netQueue'[Len(netQueue')].document_id = doc.id
     /\ documents' # documents \/ netQueue' # netQueue => Len(objects') > Len(objects)
     /\ \A i \in 1..Len(objects') :
          objects'[i].bucket_id = "files" =>
            /\ Cardinality(DocumentsOf(documents', objects'[i])) = 1
            /\ \A d \in DocumentsOf(documents', objects'[i]) :
                 Cardinality(CallsFor(netQueue', documents'[d])) = 1
     /\ netSent' > netSent => HasDocument(netQueue[netSent'].document_id)]_vars

\* C11 witness: two objects of the 'files' bucket, a document and a request for
\* each, and the second request already sent.
C11_Witness ==
  /\ Len(objects) = 2
  /\ \A i \in 1..2 : objects[i].bucket_id = "files"
  /\ Len(documents) = 2
  /\ documents[1].id # documents[2].id
  /\ \A i \in 1..2 : netQueue[i].document_id = documents[i].id
  /\ \A i \in 1..2 : documents[i].storage_object_id = objects[i].id
  /\ netSent = 2

\* The step ends request k of the processing endpoint with status 500.
ProcessFailed(k) == proc[k].pc # "done" /\ proc'[k].response = 500

\* C12: when the processing endpoint fails, nothing of the upload is taken
\* back: the step leaves the objects, the documents and the sections as they
\* were, and the document of a request the trigger queued is still there with
\* its object.
C12_FireAndForget ==
  [][\A k \in Processes : ProcessFailed(k) =>
       /\ objects' = objects
       /\ documents' = documents
       /\ sections' = sections
       /\ proc'[k].request # 0 =>
            \E i \in 1..Len(documents') :
              /\ documents'[i].id = netQueue[proc'[k].request].document_id
              /\ \E j \in 1..Len(objects') :
                   objects'[j].id = documents'[i].storage_object_id]_vars

\* C12 witness: the request the trigger queued for a document failed at the
\* download; the object and the document are in place, with no section.
C12_Witness ==
  \E k \in Processes :
    /\ proc[k].response = 500
    /\ proc[k].request # 0
    /\ proc[k].error = "Failed to download storage object"
    /\ \E i \in 1..Len(documents) :
         /\ documents[i].id = proc[k].document_id
         /\ \E j \in 1..Len(objects) : objects[j].id = documents[i].storage_object_id
    /\ \A i \in 1..Len(sections) : sections[i].document_id # proc[k].document_id

\* C13: a request is answered 204 only at the insert step, when the insert
\* succeeded, which is reached only after the download succeeded, which is
\* reached only after the document was found; every other end of a POST request
\* is a 500 with an error body; and a request that ends before the insert step,
\* or whose insert fails, adds no section.
C13_ProcessResponses ==
  [][\A k \in Processes : proc'[k] # proc[k] =>
       /\ proc'[k].pc = "find" => proc[k].pc = "idle"
       /\ proc'[k].pc = "download" =>
            proc[k].pc = "find" /\ HasDocument(proc[k].document_id)
       /\ proc'[k].pc = "insert" => proc[k].pc = "download"
       /\ proc'[k].pc = "done" =>
            /\ proc'[k].response \in {200, 204, 500}
            /\ proc'[k].response = 200 => proc[k].pc = "idle"
            /\ proc'[k].response = 204 <=>
                 /\ proc[k].pc = "insert"
                 /\ proc'[k].error = "none"
                 /\ \E n \in SectionCounts :
                      sections' = sections \o SectionRows(proc[k].document_id, n)
                 /\ HasDocument(proc[k].document_id)
            /\ proc'[k].response = 500 =>
                 /\ proc'[k].error # "none"
                 /\ sections' = sections
            /\ proc[k].pc # "insert" => sections' = sections
       /\ proc'[k].pc # "done" => sections' = sections]_vars

\* C13 witness: one request answered 204 with its sections inserted, another
\* answered 500 for a document that was not found, with no section of its own.
C13_Witness ==
  \E k, l \in Processes :
    /\ proc[k].response = 204
    /\ \E i \in 1..Len(sections) : sections[i].document_id = proc[k].document_id
    /\ proc[l].response = 500
    /\ proc[l].error = "Failed to find uploaded document"
    /\ \A i \in 1..Len(sections) : sections[i].document_id # proc[l].document_id

\* C14: a request that finds its configuration or its Authorization header
\* missing, or whose selection query fails, ends at once with 500; it never
\* enters the row loop, so it runs no model attempt, makes no update and
\* ends no row, and its own step leaves every embedding as it was. Until the
\* selection has succeeded a request is before the loop or over.
C14_FailureBeforeLoop ==
  [][\A p \in Invocations :
       /\ inv'[p].error # "none" =>
            /\ inv'[p].pc = "done"
            /\ inv'[p].response = 500
            /\ ~hist'[p].started
       /\ inv'[p].error # inv[p].error =>
            /\ inv[p].pc \in {"idle", "select"}
            /\ embedding' = embedding
            /\ content' = content
       /\ ~hist'[p].started =>
            /\ inv[p].pc \in {"idle", "select", "done"}
            /\ inv'[p].pc \in {"idle", "select", "done"}
            /\ inv'[p].rows = <<>>
            /\ \A r \in Ids : hist'[p].result[r] = "none"
            /\ inv'[p].pc = "done" =>
                 \/ inv'[p].response = 500 /\ inv'[p].error # "none"
                 \/ inv'[p].response = 200]_vars

\* C14 witness: a request whose selection failed was answered 500 next to a
\* request that saved a row; the failed one ended no row.
C14_Witness ==
  \E p, q \in Invocations :
    /\ inv[p].response = 500
    /\ inv[p].error = "selectError"
    /\ \A r \in Ids : hist[p].result[r] = "none"
    /\ \E r \in Ids : hist[q].result[r] = "saved"

\* C17: a model attempt is the first for its row (the row had no step before)
\* or follows the backoff after a failed attempt for the same row; an attempt
\* is made with fewer than 3 failures behind it, so a row gets 3 attempts at
\* most; a successful attempt leads to the update and from there to the next
\* row, and the third failure leads to the next row: no attempt follows either.
C17_AtMostThreeAttempts ==
  [][\A p \in Invocations :
       /\ inv[p].pc = "attempt" => inv[p].retryCount \in 0..2
       /\ inv[p].pc = "backoff" => inv[p].retryCount \in 1..2
       /\ inv'[p].pc = "attempt" /\ inv[p].pc # "attempt" =>
            \/ /\ inv[p].pc = "row"
               /\ inv'[p].retryCount = 0
               /\ inv'[p].idx = inv[p].idx
               /\ hist[p].result[Row(p)] = "none"
            \/ /\ inv[p].pc = "backoff"
               /\ inv'[p].retryCount = inv[p].retryCount
               /\ inv'[p].idx = inv[p].idx
       /\ AttemptEnds(p) =>
            \/ /\ inv'[p].pc = "update"
               /\ inv'[p].retryCount = inv[p].retryCount
               /\ inv'[p].idx = inv[p].idx
            \/ /\ inv'[p].pc = "backoff"
               /\ inv'[p].retryCount = inv[p].retryCount + 1
               /\ inv'[p].retryCount < 3
               /\ inv'[p].idx = inv[p].idx
            \/ /\ inv[p].retryCount = 2
               /\ inv'[p].pc = "row"
               /\ inv'[p].idx = inv[p].idx + 1
               /\ hist'[p].result[Row(p)] = "exhausted"
       /\ UpdateReturns(p) =>
            /\ inv'[p].pc = "row"
            /\ inv'[p].idx = inv[p].idx + 1
            /\ hist'[p].result[Row(p)] # "none"
       /\ hist[p].started /\ inv'[p] # inv[p] =>
            /\ inv'[p].rows = inv[p].rows
            /\ inv'[p].idx >= inv[p].idx
            /\ \A i, j \in 1..Len(inv[p].rows) :
                 inv[p].rows[i] = inv[p].rows[j] => i = j]_vars

\* C17 witness: a batch whose first row was given up after its third failure
\* and whose second row succeeded at its third attempt.
C17_Witness ==
  \E p \in Invocations :
    /\ inv[p].pc = "update"
    /\ inv[p].idx = 2
    /\ inv[p].retryCount = 2
    /\ hist[p].result[inv[p].rows[1]] = "exhausted"

\* C18: a failed attempt that is not the last one is followed by a backoff
\* wait, and that by the next attempt; the wait is longer than the wait before
\* it for the same row (none: 0); a wait is only entered from a failed attempt;
\* and the third failure is followed by no wait.
C18_BackoffIncreases ==
  [][\A p \in Invocations :
       /\ inv'[p].pc = "backoff" /\ inv[p].pc # "backoff" =>
            /\ inv[p].pc = "attempt"
            /\ inv'[p].idx = inv[p].idx
            /\ inv'[p].delay > inv[p].delay
            /\ inv'[p].delay > 0
       /\ inv[p].pc = "backoff" /\ inv'[p] # inv[p] =>
            /\ inv'[p].pc = "attempt"
            /\ inv'[p].idx = inv[p].idx
            /\ inv'[p].delay = inv[p].delay
       /\ AttemptEnds(p) =>
            /\ inv'[p].pc # "attempt"
            /\ inv'[p].pc = "update" => inv'[p].delay = inv[p].delay
            /\ inv[p].retryCount = 2 => inv'[p].pc # "backoff"
            /\ inv[p].retryCount < 2 /\ inv'[p].pc # "update" => inv'[p].pc = "backoff"
       /\ inv'[p].pc = "row" => inv'[p].delay = 0]_vars

\* C18 witness: a row waiting after its second failure, longer than the 3000 ms
\* of its first wait.
C18_Witness ==
  \E p \in Invocations :
    /\ inv[p].pc = "backoff"
    /\ inv[p].retryCount = 2
    /\ inv[p].delay > 3000

\* C19: the rows a selection returns are rows of the request's ids whose
\* embedding is null as the query runs; an update of an invocation is for one
\* of the rows it selected, and changes the embedding of that row only: no
\* other row's embedding, and no row's content.
C19_WritesOnlySelectedRows ==
  [][\A p \in Invocations :
       /\ inv[p].pc = "select" /\ inv'[p].pc = "row" =>
            /\ inv'[p].ids = inv[p].ids
            /\ \A i \in 1..Len(inv'[p].rows) :
                 /\ inv'[p].rows[i] \in inv[p].ids
                 /\ embedding[inv'[p].rows[i]] = Null
       /\ hist[p].started /\ inv'[p] # inv[p] =>
            /\ inv'[p].ids = inv[p].ids
            /\ inv'[p].rows = inv[p].rows
       /\ UpdateReturns(p) =>
            /\ Row(p) \in inv[p].ids
            /\ Row(p) \notin hist[p].embedded
            /\ \A r \in Ids \ {Row(p)} : embedding'[r] = embedding[r]
            /\ content' = content
       /\ inv'[p] = inv[p] /\ (\A q \in Invocations : ~UpdateReturns(q)) =>
            embedding' = embedding]_vars

\* C19 witness: a finished batch saved the one row of its ids; the other row,
\* with text enough to embed, has no embedding; and another batch that named
\* the saved row after it was written ended without writing it.
C19_Witness ==
  \E p, q \in Invocations : \E r1, r2 \in Ids :
    /\ r1 # r2
    /\ inv[p].pc = "done" /\ inv[p].ids = {r1}
    /\ hist[p].result[r1] = "saved"
    /\ content[r2] = Text(GoodText) /\ embedding[r2] = Null
    /\ inv[q].pc = "done" /\ inv[q].response = 204
    /\ r1 \in hist[q].embedded
    /\ hist[q].result[r1] = "none"

\* C20: the rows of a batch are taken one at a time, in the order selected:
\* every row before the current one is over, the current one and those after
\* it are not; a step stays with the current row or ends it and moves to the
\* next one, at the loop head; and a step ends no row but the current one.
C20_RowsSerial ==
  [][\A p \in Invocations : hist[p].started /\ inv'[p] # inv[p] =>
       /\ \A i \in 1..Len(inv[p].rows) :
            hist[p].result[inv[p].rows[i]] = "none" <=> i >= inv[p].idx
       /\ \A i \in 1..Len(inv'[p].rows) :
            hist'[p].result[inv'[p].rows[i]] = "none" <=> i >= inv'[p].idx
       /\ inv'[p].idx \in {inv[p].idx, inv[p].idx + 1}
       /\ inv'[p].idx = inv[p].idx + 1 =>
            /\ inv'[p].pc = "row"
            /\ inv[p].pc \in {"row", "attempt", "update"}
       /\ inv'[p].pc \in {"attempt", "backoff", "update"} =>
            /\ inv'[p].idx = inv[p].idx
            /\ inv'[p].idx \in 1..Len(inv'[p].rows)
       /\ \A r \in Ids : hist'[p].result[r] # hist[p].result[r] =>
            r = Row(p) /\ inv'[p].idx = inv[p].idx + 1
       /\ embedding' # embedding => inv[p].pc = "update"]_vars

\* C20 witness: a batch at a model attempt for its second row, after its first
\* row was saved.
C20_Witness ==
  \E p \in Invocations :
    /\ inv[p].pc = "attempt"
    /\ inv[p].idx = 2
    /\ hist[p].result[inv[p].rows[1]] = "saved"

\* C15: the sanitizer's output is at most 2000 characters long and every
\* character of it is printable ASCII (0x20-0x7E): no line feed, no carriage
\* return, no other control character, nothing above 0x7E.
C15_OutputBounded ==
  sanitizer.done =>
    /\ Len(sanitizer.output) <= 2000
    /\ \A i \in 1..Len(sanitizer.output) : sanitizer.output[i] \in 32..126

\* C15 witness: a text of more than 2000 characters was cut to 2000.
C15_Witness ==
  /\ sanitizer.done
  /\ Len(sanitizer.input) > 2000
  /\ Len(sanitizer.output) = 2000

\* "click here bold"
Expected == <<99,108,105,99,107,32,104,101,114,101,32,98,111,108,100>>

\* C16: the example is sanitized to "click here bold"; a link [text](url) in
\* plain text is sanitized as the same text with the link's text in its place;
\* no formatting marker (# * _ ` ~) is left; and the chain of replacements
\* leaves single spaces between other characters only: no other white space,
\* no two spaces in a row, no space at either end.
C16_LinksMarkersWhitespace ==
  sanitizer.done =>
    /\ sanitizer.input = Example => sanitizer.output = Expected
    /\ sanitizer.link => sanitizer.chain = ReplaceChain(sanitizer.plain)
    /\ \A i \in 1..Len(sanitizer.output) :
         sanitizer.output[i] \notin {35, 42, 95, 96, 126}
    /\ LET c == sanitizer.chain IN
         /\ \A i \in 1..Len(c) : c[i] \notin {9, 10, 11, 12, 13, 160}
         /\ \A i \in 1..(Len(c) - 1) : ~(c[i] = 32 /\ c[i + 1] = 32)
         /\ c # <<>> => c[1] # 32 /\ c[Len(c)] # 32

\* C16 witness: the example has been sanitized to "click here bold".
C16_Witness ==
  /\ sanitizer.done
  /\ sanitizer.input = Example
  /\ sanitizer.output = Expected

\* C21: an update is issued only when a model attempt for the same row has
\* just ended without an error, for a row that has had no update in this
\* batch; whatever the update returns, the row is over and the next row is
\* taken up: the update is not repeated and no model attempt follows for the
\* row; and the outcome of a row that is over stays as it is.
C21_OneUpdatePerRow ==
  [][\A p \in Invocations :
       /\ inv'[p].pc = "update" /\ inv[p].pc # "update" =>
            /\ inv[p].pc = "attempt"
            /\ inv'[p].idx = inv[p].idx
            /\ inv'[p].output # Null
            /\ hist[p].result[Row(p)] = "none"
       /\ UpdateReturns(p) =>
            /\ inv'[p].pc = "row"
            /\ inv'[p].idx = inv[p].idx + 1
            /\ hist'[p].result[Row(p)] \in {"saved", "rejected", "dberror"}
            /\ hist'[p].result[Row(p)] # "saved" => embedding' = embedding
       /\ inv'[p].pc \in {"attempt", "update"} =>
            hist'[p].result[inv'[p].rows[inv'[p].idx]] = "none"
       /\ \A r \in Ids :
            hist[p].result[r] # "none" => hist'[p].result[r] = hist[p].result[r]
       /\ inv'[p] # inv[p] /\ embedding' # embedding => UpdateReturns(p)]_vars

\* C21 witness: a finished batch whose update failed for one row, which has no
\* embedding, and succeeded for the other.
C21_Witness ==
  \E p \in Invocations : \E r1, r2 \in Ids :
    /\ inv[p].pc = "done"
    /\ hist[p].result[r1] = "dberror"
    /\ embedding[r1] = Null
    /\ hist[p].result[r2] = "saved"

\* The positions in log of the messages of the given type that listener run m
\* posted.
PostedBy(log, type, m) ==
  {i \in 1..Len(log) : log[i].type = type /\ log[i].of = m}

\* C22: 'ready' is posted for an 'init' message only once its own pipeline
\* has resolved and been stored as the instance, which happens while it is
\* loading and not after it failed; it is posted once; every 'progress' of that
\* initialization comes before it; and an initialization that failed stays
\* failed and has no 'ready'.
C22_ReadyAfterStored ==
  [][/\ \A m \in 1..Len(handlers) :
          /\ handlers'[m].pc = "stored" /\ handlers[m].pc # "stored" =>
               /\ handlers[m].type = "init"
               /\ handlers[m].pc = "pipeline"
               /\ instance' = m
          /\ handlers[m].pc = "failed" => handlers'[m].pc = "failed"
          /\ handlers[m].pc = "failed" => PostedBy(posted, "ready", m) = {}
          /\ PostedBy(posted', "ready", m) # PostedBy(posted, "ready", m) =>
               /\ handlers[m].type = "init"
               /\ handlers[m].pc = "stored"
               /\ handlers'[m].pc = "done"
               /\ PostedBy(posted, "ready", m) = {}
     /\ \A m \in 1..Len(handlers') :
          /\ Cardinality(PostedBy(posted', "ready", m)) <= 1
          /\ \A i \in PostedBy(posted', "ready", m) :
               \A j \in PostedBy(posted', "progress", m) : j < i
          /\ handlers'[m].pc = "failed" => PostedBy(posted', "ready", m) = {}]_vars

\* C22 witness: one initialization reported progress twice and then posted
\* 'ready'; another one failed in the pipeline and posted no 'ready'.
C22_Witness ==
  \E m1, m2 \in 1..Len(handlers) :
    /\ Cardinality(PostedBy(posted, "progress", m1)) = 2
    /\ PostedBy(posted, "ready", m1) # {}
    /\ handlers[m2].type = "init"
    /\ handlers[m2].error = "pipeline"
    /\ PostedBy(posted, "ready", m2) = {}

\* The 'run' messages among the listener runs hs.
RunsOf(hs) == {m \in 1..Len(hs) : hs[m].type = "run"}

\* C23: every 'result' posted was posted by the listener run of one 'run'
\* message received before, carries that message's id, and no other 'run'
\* message received has that id; a 'run' message has one 'result' at most; and
\* a 'run' message that arrives while there is no instance fails with
\* 'Pipeline not initialized', and such a run never has a 'result'.
C23_ResultsMatchRuns ==
  [][/\ \A i \in 1..Len(posted') : posted'[i].type = "result" =>
          /\ posted'[i].of \in RunsOf(handlers')
          /\ handlers'[posted'[i].of].id = posted'[i].id
          /\ handlers'[posted'[i].of].pc = "done"
          /\ Cardinality({m \in RunsOf(handlers') :
                            handlers'[m].id = posted'[i].id}) = 1
     /\ \A m \in RunsOf(handlers') :
          /\ Cardinality(PostedBy(posted', "result", m)) <= 1
          /\ handlers'[m].error = "Pipeline not initialized" =>
               /\ handlers'[m].pc = "failed"
               /\ PostedBy(posted', "result", m) = {}
     /\ Len(handlers') > Len(handlers) /\ handlers'[Len(handlers')].type = "run" =>
          LET run == handlers'[Len(handlers')] IN
            /\ posted' = posted
            /\ instance = 0 <=> run.error = "Pipeline not initialized"
            /\ instance = 0 => run.pc = "failed"
     /\ \A m \in RunsOf(handlers) :
          PostedBy(posted', "result", m) # PostedBy(posted, "result", m) =>
            /\ handlers[m].pc = "running"
            /\ handlers[m].using # 0]_vars

\* C23 witness: an 'init' message, then a 'run' message that failed with
\* 'Pipeline not initialized' (the pipeline was still loading or had failed),
\* then a 'run' message whose 'result' was posted with its own id.
C23_Witness ==
  \E m0, m1, m2 \in 1..Len(handlers) :
    /\ m0 < m1 /\ m1 < m2
    /\ handlers[m0].type = "init"
    /\ handlers[m1].type = "run"
    /\ handlers[m1].error = "Pipeline not initialized"
    /\ handlers[m2].type = "run"
    /\ handlers[m2].id # handlers[m1].id
    /\ \E i \in PostedBy(posted, "result", m2) : posted[i].id = handlers[m2].id
    /\ PostedBy(posted, "result", m1) = {}

====
